---- MODULE Spec2Model ----
(***************************************************************************)
(* The event-log store of bolt.diy (class LogStore, src/unnamed/part_000)  *)
(* as a state machine: the resident map, the 'eventLogs' cookie, the wall  *)
(* clock, and one action per public operation of the store; and the tab    *)
(* state of the settings window (UsersWindow.tsx) with its click handlers. *)
(***************************************************************************)
EXTENDS Integers, Sequences, FiniteSets, TLC

\* const MAX_LOGS = 1000 in the source; the model keeps the same comparisons
\* against a capacity scaled down to a size TLC can enumerate.
MAX_LOGS == 2

\* Date.now() ranges over 0..MaxClock within the modelled session.
MaxClock == 1

\* Math.random().toString(36).substr(2, 9) ranges over 0..RandMax.
RandMax == 1

\* addLog calls explored after a construction or a clearLogs.
MaxCalls == MAX_LOGS + 1

\* Helper calls explored in a session that logs through the helpers.
MaxHelperCalls == 1

\* handleTabClick calls of the settings window that may be pending at once.
MaxPending == 3

\* Page loads (constructions of the singleton) explored after the first.
MaxRestarts == 1

VARIABLES
    logs,         \* this._logs: the value held by the nanostores map
    cookie,       \* the document cookie 'eventLogs'
    now,          \* the wall clock read by Date.now() and new Date()
    issued,       \* ghost: ids generated by _generateId in this process
    last,         \* ghost: the most recent call, its arguments and outcome
    mutated,      \* ghost: addLog or clearLogs was called in this process
    calls,        \* ghost: addLog calls since construction or clearLogs
    fromEmpty,    \* ghost: the store held no entry when calls was 0
    discarded,    \* ghost: timestamps of the entries dropped since then
    restarts,     \* ghost: constructions after the first
    showLogs,     \* this.showLogs: the atom the view layer reads
    stamps,       \* ghost: the timestamps addLog assigned in this process
    helper,       \* ghost: the helper that made the most recent addLog call
    activeTab,    \* UsersWindow: useState activeTab
    loadingTab,   \* UsersWindow: useState loadingTab
    pending,      \* UsersWindow: handleTabClick calls that have not finished
    userTabs,     \* tabConfigurationStore: tabConfiguration.userTabs
    item,         \* the drag item of the tile being dragged, if any
    lastMove      \* ghost: the most recent moveTab call

\* The tab configuration and the drag in progress.
tiles == <<userTabs, item, lastMove>>

\* The state of the settings window.
window == <<activeTab, loadingTab, pending, tiles>>

\* The state of the store, its environment and its ghosts.
store == <<logs, cookie, now, issued, last, mutated, calls, fromEmpty,
           discarded, restarts, showLogs, stamps, helper>>

vars == <<store, window>>

----------------------------------------------------------------------------
(* Values *)

\* LogEntry['level'] and LogEntry['category'].
Levels == {"info", "warning", "error", "debug"}
Categories == {"system", "provider", "user", "error", "api", "auth",
               "database", "network"}

\* An argument left out of a call, and the value of a field that is not set.
Undefined == [kind |-> "undefined"]

\* details?: Record<string, any>.  A property value is "v" (a string, which
\* JSON carries unchanged), "NaN" (a number JSON cannot carry), "undefined"
\* or "cycle" (a reference back to the object that holds it).
DetailsObject(props) == [kind |-> "object", props |-> props]
PlainDetails == DetailsObject([k |-> "v"])
NaNDetails == DetailsObject([k |-> "NaN"])
CyclicDetails == DetailsObject([k |-> "cycle"])

\* The argument lists addLog is called with.  "undefined" for level or
\* category is a call that leaves the parameter out.
Payloads ==
    { [message |-> "a", level |-> "undefined", category |-> "undefined",
       details |-> Undefined],
      [message |-> "b", level |-> "error", category |-> "api",
       details |-> PlainDetails],
      [message |-> "a", level |-> "warning", category |-> "user",
       details |-> NaNDetails],
      [message |-> "b", level |-> "debug", category |-> "system",
       details |-> CyclicDetails] }

\* new Date(ms).toISOString() and new Date(iso).getTime(): the ISO text
\* carries the instant to the millisecond.
ToISOString(ms) == [iso |-> ms]
GetTime(timestamp) == timestamp.iso

\* The value of a nanostores map: an object (its entries in key order), or
\* whatever _loadLogs stored in it.
MapValue(kind, ents) == [kind |-> kind, ents |-> ents]
EmptyMap == MapValue("object", <<>>)

Ids(m) == {m.ents[i].id : i \in 1..Len(m.ents)}
Size(m) == Len(m.ents)

----------------------------------------------------------------------------
(* JSON.stringify and JSON.parse *)

\* JSON.stringify throws a TypeError on a cyclic structure.
CanStringifyDetails(d) ==
    d.kind = "undefined" \/ \A k \in DOMAIN d.props : d.props[k] # "cycle"

CanStringify(m) ==
    \A i \in 1..Len(m.ents) : CanStringifyDetails(m.ents[i].details)

\* NaN is written as null; the other values are written as they are.
JsonValue(v) == IF v = "NaN" THEN "null" ELSE v

\* A property whose value is undefined is left out.
JsonDetails(d) ==
    DetailsObject([k \in {x \in DOMAIN d.props : d.props[x] # "undefined"}
                     |-> JsonValue(d.props[k])])

\* The JSON text of an entry: the key details is left out when undefined.
JsonEntry(e) ==
    IF e.details = Undefined
    THEN [id |-> e.id, timestamp |-> e.timestamp, level |-> e.level,
          message |-> e.message, category |-> e.category]
    ELSE [id |-> e.id, timestamp |-> e.timestamp, level |-> e.level,
          message |-> e.message, details |-> JsonDetails(e.details),
          category |-> e.category]

\* A cookie value: absent, text that is not JSON, or a JSON text (held as
\* the value it denotes).
Blob(kind, val) == [kind |-> kind, val |-> val]
AbsentBlob == Blob("absent", EmptyMap)
GarbageBlob == Blob("garbage", EmptyMap)

Stringify(m) ==
    Blob("json",
         MapValue(m.kind, [i \in 1..Len(m.ents) |-> JsonEntry(m.ents[i])]))

\* Reading entry.details of a parsed entry gives undefined when the key is
\* not there.
ParseEntry(j) ==
    [id |-> j.id, timestamp |-> j.timestamp, level |-> j.level,
     message |-> j.message,
     details |-> IF "details" \in DOMAIN j THEN j.details ELSE Undefined,
     category |-> j.category]

Parse(blob) ==
    MapValue(blob.val.kind,
             [i \in 1..Len(blob.val.ents) |-> ParseEntry(blob.val.ents[i])])

----------------------------------------------------------------------------
(* The store *)

\* _loadLogs, run by the constructor on the fresh map({}).  An absent (or
\* empty) cookie is skipped; a JSON.parse error is caught and logged; any
\* parsed value is stored as it is.
LoadLogs(blob) ==
    IF blob.kind = "json" THEN Parse(blob) ELSE EmptyMap

\* _generateId: `${Date.now()}-${Math.random().toString(36).substr(2, 9)}`.
GenerateId(time, random) == <<time, random>>

\* Array.prototype.sort with (a, b) => getTime(b) - getTime(a): descending
\* by timestamp, entries with equal timestamps staying in their order.
Place(sorted, e) ==
    LET n == Cardinality({i \in 1..Len(sorted) :
                 GetTime(sorted[i].timestamp) >= GetTime(e.timestamp)})
    IN SubSeq(sorted, 1, n) \o <<e>> \o SubSeq(sorted, n + 1, Len(sorted))

RECURSIVE SortByTimestampDesc(_)
SortByTimestampDesc(s) ==
    IF s = <<>> THEN <<>>
    ELSE Place(SortByTimestampDesc(SubSeq(s, 1, Len(s) - 1)), s[Len(s)])

\* _trimLogs: above MAX_LOGS entries, the first MAX_LOGS of the sorted
\* entries become the new map.
TrimLogs(m) ==
    IF Len(m.ents) > MAX_LOGS
    THEN MapValue("object",
                  SubSeq(SortByTimestampDesc(m.ents), 1, MAX_LOGS))
    ELSE m

\* this._logs.setKey(id, entry) on an object or a number: the spread of the
\* old value with the key set, so an existing key keeps its place and a new
\* key goes last.  (On null the property read throws: see AddLog.)
SetKey(m, id, entry) ==
    IF \E i \in 1..Len(m.ents) : m.ents[i].id = id
    THEN MapValue("object",
                  [i \in 1..Len(m.ents) |->
                      IF m.ents[i].id = id THEN entry ELSE m.ents[i]])
    ELSE MapValue("object", Append(m.ents, entry))

\* A parameter default: level = 'info', category = 'system'.
Default(arg, value) == IF arg = "undefined" THEN value ELSE arg

\* The entry addLog builds.
NewEntry(id, time, p) ==
    [id |-> id, timestamp |-> ToISOString(time),
     level |-> Default(p.level, "info"), message |-> p.message,
     details |-> p.details, category |-> Default(p.category, "system")]

\* Object.values(this._logs.get()).sort(...) of getLogs; Object.values
\* throws a TypeError on null.
GetLogsThrows(m) == m.kind = "null"
GetLogsValue(m) == SortByTimestampDesc(m.ents)

----------------------------------------------------------------------------
(* getFilteredLogs *)

\* String.prototype.toLowerCase, character by character.
LowerChar(c) ==
    CASE c = "A" -> "a" [] c = "B" -> "b" [] c = "C" -> "c" [] c = "D" -> "d"
      [] c = "E" -> "e" [] c = "F" -> "f" [] c = "G" -> "g" [] c = "H" -> "h"
      [] c = "I" -> "i" [] c = "J" -> "j" [] c = "K" -> "k" [] c = "L" -> "l"
      [] c = "M" -> "m" [] c = "N" -> "n" [] c = "O" -> "o" [] c = "P" -> "p"
      [] c = "Q" -> "q" [] c = "R" -> "r" [] c = "S" -> "s" [] c = "T" -> "t"
      [] c = "U" -> "u" [] c = "V" -> "v" [] c = "W" -> "w" [] c = "X" -> "x"
      [] c = "Y" -> "y" [] c = "Z" -> "z" [] OTHER -> c

RECURSIVE ToLowerCase(_)
ToLowerCase(text) ==
    IF text = "" THEN ""
    ELSE LowerChar(SubSeq(text, 1, 1))
            \o ToLowerCase(SubSeq(text, 2, Len(text)))

\* String.prototype.includes.
Includes(text, part) ==
    \E i \in 0..(Len(text) - Len(part)) :
        SubSeq(text, i + 1, i + Len(part)) = part

\* JSON.stringify(log.details): undefined for undefined (there is no text),
\* a TypeError for a cyclic object, otherwise the text of the object with
\* the properties JSON carries, NaN written as null.
StringifyDetailsGivesText(d) == d.kind = "object" /\ CanStringifyDetails(d)

QuotedText(s) == "\"" \o s \o "\""
ValueText(v) == IF v \in {"NaN", "null"} THEN "null" ELSE QuotedText(v)

RECURSIVE MembersText(_, _)
MembersText(props, keys) ==
    IF keys = {} THEN ""
    ELSE LET k == CHOOSE x \in keys : TRUE
             rest == MembersText(props, keys \ {k})
         IN QuotedText(k) \o ":" \o ValueText(props[k])
               \o (IF rest = "" THEN "" ELSE "," \o rest)

StringifyDetailsText(d) ==
    "{" \o MembersText(d.props, DOMAIN JsonDetails(d).props) \o "}"

\* The arguments of getFilteredLogs; "undefined" is a parameter left out.
Filter(level, category, searchQuery) ==
    [level |-> level, category |-> category, searchQuery |-> searchQuery]

\* !level || level === 'debug' || log.level === level, with only the
\* comparison against the entry's level.
MatchesLevelExactly(log, level) ==
    level \in {"undefined", ""} \/ log.level = level

\* !level || level === 'debug' || log.level === level.
MatchesLevel(log, level) ==
    level \in {"undefined", ""} \/ level = "debug" \/ log.level = level

\* !category || log.category === category.
MatchesCategory(log, category) ==
    category \in {"undefined", ""} \/ log.category = category

\* log.message.toLowerCase().includes(searchQuery.toLowerCase()).
MessageIncludes(log, searchQuery) ==
    Includes(ToLowerCase(log.message), ToLowerCase(searchQuery))

\* The third predicate is evaluated left to right: the details are
\* serialized only when the query is present and not in the message.
SerializesDetails(log, searchQuery) ==
    searchQuery \notin {"undefined", ""} /\ ~MessageIncludes(log, searchQuery)

\* JSON.stringify(log.details).toLowerCase(): a TypeError when stringify
\* throws, and when it returns undefined, which has no toLowerCase.
MatchesSearchThrows(log, searchQuery) ==
    SerializesDetails(log, searchQuery)
        /\ ~StringifyDetailsGivesText(log.details)

MatchesSearch(log, searchQuery) ==
    \/ searchQuery \in {"undefined", ""}
    \/ MessageIncludes(log, searchQuery)
    \/ Includes(ToLowerCase(StringifyDetailsText(log.details)),
                ToLowerCase(searchQuery))

\* this.getLogs().filter(...): the callback runs on every entry, all three
\* predicates computed before they are combined.
GetFilteredLogsThrows(m, f) ==
    \/ GetLogsThrows(m)
    \/ \E i \in 1..Len(m.ents) : MatchesSearchThrows(m.ents[i], f.searchQuery)

Matches(log, f) ==
    /\ MatchesLevel(log, f.level)
    /\ MatchesCategory(log, f.category)
    /\ MatchesSearch(log, f.searchQuery)

GetFilteredLogsValue(m, f) ==
    SelectSeq(GetLogsValue(m), LAMBDA log : Matches(log, f))

----------------------------------------------------------------------------
(* The record of a call *)

NoId == <<-1, -1>>
NoPayload == [message |-> "", level |-> "undefined",
              category |-> "undefined", details |-> Undefined]

Call(op, threw, id, p, dup, again, result) ==
    [op |-> op, threw |-> threw, id |-> id, args |-> p, dup |-> dup,
     again |-> again, result |-> result]

Constructed == Call("construct", FALSE, NoId, NoPayload, FALSE, FALSE, <<>>)

\* The timestamps (in ms) assigned by the addLog calls of this process: the
\* one the most recent call assigned (NoStamp before the first call) and the
\* ones the calls before it assigned.
NoStamp == -1
NoStamps == [latest |-> NoStamp, earlier |-> {}]
Stamped(s, ms) ==
    [latest |-> ms,
     earlier |-> IF s.latest = NoStamp THEN s.earlier
                 ELSE s.earlier \cup {s.latest}]

\* The helper call that addLog was reached through: its name and its own
\* arguments (NoHelper when addLog was called directly).
HelperCall(name, args) == [name |-> name, args |-> args]
NoHelper == HelperCall("none", <<>>)

----------------------------------------------------------------------------
(* The helpers: what each hands to addLog *)

\* A number, a boolean and an ISO timestamp as property values of details
\* (which are held as strings): 404 is "404", true is "true", the instant
\* ms after the epoch is its ISO text.
NumberValue(n) == ToString(n)
BooleanValue(b) == IF b THEN "true" ELSE "false"
ISOText(ms) == "1970-01-01T00:00:00.00" \o ToString(ms) \o "Z"

\* ...details in an object literal: the properties of details, none when
\* details is undefined.
Spread(details) ==
    IF details.kind = "object" THEN details.props ELSE [k \in {} |-> ""]

\* An object literal { ...first, ...second }: a key of both takes the
\* value of the later.
Literal(first, second) == second @@ first

Payload(message, level, category, details) ==
    [message |-> message, level |-> level, category |-> category,
     details |-> details]

\* logAPIRequest with statusCode > 400 in place of statusCode >= 400.
APIRequestLevelAbove(statusCode) ==
    IF statusCode > 400 THEN "error"
    ELSE IF statusCode >= 300 THEN "warning" ELSE "info"

\* logAPIRequest.
APIRequestLevel(statusCode) ==
    IF statusCode >= 400 THEN "error"
    ELSE IF statusCode >= 300 THEN "warning" ELSE "info"

\* logAPIRequest with ...details written last in the literal.
APIRequestDetailsCallerLast(a, time) ==
    DetailsObject(Literal(
        [endpoint |-> a.endpoint, method |-> a.method,
         duration |-> NumberValue(a.duration),
         statusCode |-> NumberValue(a.statusCode),
         timestamp |-> ISOText(time)],
        Spread(a.details)))

APIRequestDetails(a, time) ==
    DetailsObject(Literal(
        Spread(a.details),
        [endpoint |-> a.endpoint, method |-> a.method,
         duration |-> NumberValue(a.duration),
         statusCode |-> NumberValue(a.statusCode),
         timestamp |-> ISOText(time)]))

APIRequestPayload(a, time) ==
    Payload(a.method \o " " \o a.endpoint \o " - " \o ToString(a.statusCode)
               \o " (" \o ToString(a.duration) \o "ms)",
            APIRequestLevel(a.statusCode), "api", APIRequestDetails(a, time))

\* logAuth.
SuccessText(success) == IF success THEN "Success" ELSE "Failed"
SuccessLevel(success) == IF success THEN "info" ELSE "error"

AuthPayload(a, time) ==
    Payload("Auth " \o a.action \o " - " \o SuccessText(a.success),
            SuccessLevel(a.success), "auth",
            DetailsObject(Literal(
                Spread(a.details),
                [action |-> a.action, success |-> BooleanValue(a.success),
                 timestamp |-> ISOText(time)])))

\* logNetworkStatus.
NetworkLevel(status) ==
    IF status = "offline" THEN "error"
    ELSE IF status = "reconnecting" THEN "warning" ELSE "info"

NetworkPayload(a, time) ==
    Payload("Network " \o a.status, NetworkLevel(a.status), "network",
            DetailsObject(Literal(
                Spread(a.details),
                [status |-> a.status, timestamp |-> ISOText(time)])))

\* logDatabase.
DatabasePayload(a, time) ==
    Payload("DB " \o a.operation \o " - " \o SuccessText(a.success)
               \o " (" \o ToString(a.duration) \o "ms)",
            SuccessLevel(a.success), "database",
            DetailsObject(Literal(
                Spread(a.details),
                [operation |-> a.operation,
                 success |-> BooleanValue(a.success),
                 duration |-> NumberValue(a.duration),
                 timestamp |-> ISOText(time)])))

\* The error argument of logError: an Error object, or any other value.
ErrorObject(name, message, stack) ==
    [kind |-> "Error", name |-> name, message |-> message, stack |-> stack]
OtherValue(value) == [kind |-> "other", value |-> value]

\* logError with ...details written first in both literals.
ErrorDetailsCallerFirst(error, details) ==
    DetailsObject(
        IF error.kind = "Error"
        THEN Literal(Spread(details),
                     [name |-> error.name, message |-> error.message,
                      stack |-> error.stack])
        ELSE Literal(Spread(details), [error |-> error.value]))

\* logError: error instanceof Error ? { name, message, stack, ...details }
\* : { error, ...details }.
ErrorDetails(error, details) ==
    DetailsObject(
        IF error.kind = "Error"
        THEN Literal([name |-> error.name, message |-> error.message,
                      stack |-> error.stack],
                     Spread(details))
        ELSE Literal([error |-> error.value], Spread(details)))

ErrorPayload(a) ==
    Payload(a.message, "error", "error", ErrorDetails(a.error, a.details))

----------------------------------------------------------------------------
(* The settings window *)

\* TabType values shown as tiles, and useState's initial null.  'update'
\* and 'features' await an acknowledgement in handleTabClick before the
\* one-second timer; 'profile' goes to the timer at once.
Tabs == {"profile", "update", "features"}
Null == "null"
Awaited == {"update", "features"}

\* A handleTabClick call that has not finished: the tab it was called with
\* and the await it is suspended at.
Handler(tab, at) == [tab |-> tab, at |-> at]
Handlers == {Handler(tab, at) : tab \in Tabs, at \in {"ack", "timer"}}
NoHandlers == [h \in Handlers |-> 0]
Running(p) == {h \in Handlers : p[h] > 0}

RECURSIVE Count(_, _)
Count(p, hs) ==
    IF hs = {} THEN 0
    ELSE LET h == CHOOSE x \in hs : TRUE IN p[h] + Count(p, hs \ {h})

----------------------------------------------------------------------------
(* The tab configuration *)

\* TabVisibilityConfig as UsersWindow reads it: id, window, visible and
\* order.  An order is a number, or Undefined where the field is missing.
Order(n) == [kind |-> "number", n |-> n]
TabVisibilityConfig(id, win, visible, order) ==
    [id |-> id, window |-> win, visible |-> visible, order |-> order]

\* tabConfiguration.userTabs as the window finds it in the store: three
\* visible user tabs, one of them without an order, a tab of the developer
\* window and a hidden tab, in no particular sequence.
StoredUserTabs ==
    << TabVisibilityConfig("features", "user", TRUE, Order(1)),
       TabVisibilityConfig("debug", "developer", TRUE, Order(0)),
       TabVisibilityConfig("profile", "user", TRUE, Undefined),
       TabVisibilityConfig("settings", "user", FALSE, Order(1)),
       TabVisibilityConfig("update", "user", TRUE, Order(0)) >>

\* a.order || 0
OrderOrZero(tab) == IF tab.order.kind = "number" THEN tab.order.n ELSE 0

\* tab.window === 'user' && tab.visible
IsVisibleUserTab(tab) == tab.window = "user" /\ tab.visible

\* Array.prototype.sort with (a.order || 0) - (b.order || 0): ascending and
\* stable, so tabs that compare equal keep the sequence they had.
PlaceByOrder(sorted, tab) ==
    LET k == Cardinality({i \in 1..Len(sorted) :
                             OrderOrZero(sorted[i]) <= OrderOrZero(tab)})
    IN  SubSeq(sorted, 1, k) \o <<tab>> \o SubSeq(sorted, k + 1, Len(sorted))

RECURSIVE SortByOrder(_)
SortByOrder(tabs) ==
    IF tabs = <<>> THEN <<>>
    ELSE PlaceByOrder(SortByOrder(SubSeq(tabs, 1, Len(tabs) - 1)),
                      tabs[Len(tabs)])

\* visibleUserTabs: filter gives a new array, which sort orders in place.
VisibleUserTabs(tabs) == SortByOrder(SelectSeq(tabs, IsVisibleUserTab))

\* updateTabConfiguration(config).  The function is imported from
\* ~/lib/stores/settings; UsersWindow calls it to "update both tabs in the
\* store".  It is taken to replace the stored configuration that has the
\* id of config by config and to leave every other configuration alone.
UpdateTabConfiguration(tabs, config) ==
    [i \in 1..Len(tabs) |->
        IF tabs[i].id = config.id THEN config ELSE tabs[i]]

\* moveTab with the order of the dragged tab read after it was overwritten.
MoveTabOrderOverwritten(tabs, dragIndex, hoverIndex) ==
    LET visibleUserTabs == VisibleUserTabs(tabs)
        draggedTab == visibleUserTabs[dragIndex + 1]
        targetTab == visibleUserTabs[hoverIndex + 1]
        updatedDraggedTab == [draggedTab EXCEPT !.order = targetTab.order]
        updatedTargetTab ==
            [targetTab EXCEPT !.order = updatedDraggedTab.order]
    IN  UpdateTabConfiguration(
            UpdateTabConfiguration(tabs, updatedDraggedTab),
            updatedTargetTab)

\* moveTab(dragIndex, hoverIndex): the indices count from 0.  The value is
\* tabConfiguration.userTabs after the two updateTabConfiguration calls.
MoveTab(tabs, dragIndex, hoverIndex) ==
    LET visibleUserTabs == VisibleUserTabs(tabs)
        draggedTab == visibleUserTabs[dragIndex + 1]
        targetTab == visibleUserTabs[hoverIndex + 1]
        updatedDraggedTab == [draggedTab EXCEPT !.order = targetTab.order]
        updatedTargetTab == [targetTab EXCEPT !.order = draggedTab.order]
    IN  UpdateTabConfiguration(
            UpdateTabConfiguration(tabs, updatedDraggedTab),
            updatedTargetTab)

\* The drag item of react-dnd ({ index }), and its absence while no tile is
\* being dragged.
Item(index) == [dragging |-> TRUE, index |-> index]
NoItem == [dragging |-> FALSE]

\* The record of a moveTab call: its arguments and the configuration it
\* found.
Move(dragIndex, hoverIndex, before) ==
    [moved |-> TRUE, dragIndex |-> dragIndex, hoverIndex |-> hoverIndex,
     before |-> before]
NoMove == [moved |-> FALSE]

----------------------------------------------------------------------------
(* Initial state: the first page load *)

\* An entry written by an earlier session.
OldEntry(i) ==
    [id |-> GenerateId(-1, i), timestamp |-> ToISOString(-1),
     level |-> "info", message |-> "a", details |-> Undefined,
     category |-> "system"]

\* What the cookie may hold when the page is first loaded: nothing, text
\* that is not JSON, the JSON texts null and 5, and a mapping of
\* MAX_LOGS + 1 entries (written under a larger capacity, or by hand).
InitialBlobs ==
    { AbsentBlob, GarbageBlob,
      Blob("json", MapValue("null", <<>>)),
      Blob("json", MapValue("number", <<>>)),
      Stringify(MapValue("object", [i \in 1..(MAX_LOGS + 1) |-> OldEntry(i)])) }

Init ==
    /\ cookie \in InitialBlobs
    /\ logs = LoadLogs(cookie)
    /\ now = 0
    /\ issued = {}
    /\ last = Constructed
    /\ mutated = FALSE
    /\ calls = 0
    /\ fromEmpty = (logs.kind # "null" /\ Size(logs) = 0)
    /\ discarded = {}
    /\ restarts = 0
    /\ showLogs = TRUE
    /\ stamps = NoStamps
    /\ helper = NoHelper
    /\ activeTab = Null
    /\ loadingTab = Null
    /\ pending = NoHandlers
    /\ userTabs = StoredUserTabs
    /\ item = NoItem
    /\ lastMove = NoMove

----------------------------------------------------------------------------
(* Operations *)

\* export const logStore = new LogStore(): a page load builds the store
\* from the cookie the earlier one left.
Restart ==
    /\ restarts < MaxRestarts
    /\ restarts' = restarts + 1
    /\ logs' = LoadLogs(cookie)
    /\ issued' = {}
    /\ last' = Constructed
    /\ mutated' = FALSE
    /\ calls' = 0
    /\ fromEmpty' = (logs'.kind # "null" /\ Size(logs') = 0)
    /\ discarded' = {}
    /\ showLogs' = TRUE
    /\ stamps' = NoStamps
    /\ helper' = NoHelper
    /\ UNCHANGED <<cookie, now, window>>

\* addLog(message, level, category, details), whoever calls it:
\* _generateId, the entry, setKey, _trimLogs, _saveLogs.  setKey throws on a null map value before
\* anything is changed; _saveLogs throws on a cyclic details after the map
\* has been changed.  The two clock reads of one call (Date.now() for the
\* id, new Date() for the timestamp) fall in the same millisecond.
AddLog(p, random) ==
    LET id == GenerateId(now, random)
        entry == NewEntry(id, now, p)
        dup == id \in issued \/ id \in Ids(logs)
    IN /\ calls < MaxCalls
       /\ issued' = issued \cup {id}
       /\ mutated' = TRUE
       /\ calls' = calls + 1
       /\ stamps' = Stamped(stamps, GetTime(entry.timestamp))
       /\ IF logs.kind = "null"
          THEN /\ last' = Call("addLog", TRUE, id, p, dup, FALSE, <<>>)
               /\ UNCHANGED <<logs, cookie, discarded>>
          ELSE LET set == SetKey(logs, id, entry)
                   trimmed == TrimLogs(set)
                   gone == {i \in 1..Len(set.ents) :
                               set.ents[i].id \notin Ids(trimmed)}
                   over == {i \in 1..Len(logs.ents) : logs.ents[i].id = id}
               IN /\ logs' = trimmed
                  /\ discarded' = discarded
                        \cup {GetTime(set.ents[i].timestamp) : i \in gone}
                        \cup {GetTime(logs.ents[i].timestamp) : i \in over}
                  /\ IF CanStringify(trimmed)
                     THEN /\ cookie' = Stringify(trimmed)
                          /\ last' = Call("addLog", FALSE, id, p, dup,
                                          FALSE, <<>>)
                     ELSE /\ cookie' = cookie
                          /\ last' = Call("addLog", TRUE, id, p, dup,
                                          FALSE, <<>>)
       /\ UNCHANGED <<now, fromEmpty, restarts, showLogs, window>>

\* logStore.addLog(...) called by the application itself.
Direct(p, random) == AddLog(p, random) /\ helper' = NoHelper

\* clearLogs() with the _saveLogs call left out.
ClearLogsWithoutSave ==
    /\ logs' = EmptyMap
    /\ last' = Call("clearLogs", FALSE, NoId, NoPayload, FALSE,
                    last.op = "clearLogs", <<>>)
    /\ mutated' = TRUE
    /\ calls' = 0
    /\ fromEmpty' = TRUE
    /\ discarded' = {}
    /\ UNCHANGED <<cookie, now, issued, restarts, showLogs, stamps, helper,
                   window>>

\* clearLogs(): set({}) and _saveLogs.
ClearLogs ==
    /\ logs' = EmptyMap
    /\ cookie' = Stringify(EmptyMap)
    /\ last' = Call("clearLogs", FALSE, NoId, NoPayload, FALSE,
                    last.op = "clearLogs", <<>>)
    /\ mutated' = TRUE
    /\ calls' = 0
    /\ fromEmpty' = TRUE
    /\ discarded' = {}
    /\ UNCHANGED <<now, issued, restarts, showLogs, stamps, helper,
                   window>>

\* getLogs() with the sorted entries written back to the map.
GetLogsSortsTheMap ==
    /\ last' = IF GetLogsThrows(logs)
               THEN Call("getLogs", TRUE, NoId, NoPayload, FALSE, FALSE, <<>>)
               ELSE Call("getLogs", FALSE, NoId, NoPayload, FALSE, FALSE,
                         GetLogsValue(logs))
    /\ logs' = IF GetLogsThrows(logs) THEN logs
               ELSE MapValue(logs.kind, GetLogsValue(logs))
    /\ UNCHANGED <<cookie, now, issued, mutated, calls, fromEmpty,
                   discarded, restarts, showLogs, stamps, helper, window>>

\* getLogs().
GetLogs ==
    /\ last' = IF GetLogsThrows(logs)
               THEN Call("getLogs", TRUE, NoId, NoPayload, FALSE, FALSE, <<>>)
               ELSE Call("getLogs", FALSE, NoId, NoPayload, FALSE, FALSE,
                         GetLogsValue(logs))
    /\ UNCHANGED <<logs, cookie, now, issued, mutated, calls, fromEmpty,
                   discarded, restarts, showLogs, stamps, helper,
                   window>>

\* The filters getFilteredLogs is called with.
Filters ==
    { Filter("debug", "undefined", "A"),
      Filter("error", "api", "V") }

\* getFilteredLogs(level, category, searchQuery).
GetFilteredLogs(f) ==
    /\ last' = IF GetFilteredLogsThrows(logs, f)
               THEN Call("getFilteredLogs", TRUE, NoId, f, FALSE, FALSE, <<>>)
               ELSE Call("getFilteredLogs", FALSE, NoId, f, FALSE, FALSE,
                         GetFilteredLogsValue(logs, f))
    /\ UNCHANGED <<logs, cookie, now, issued, mutated, calls, fromEmpty,
                   discarded, restarts, showLogs, stamps, helper,
                   window>>

\* The wall clock moves on between calls.
Tick ==
    /\ now < MaxClock
    /\ now' = now + 1
    /\ UNCHANGED <<logs, cookie, issued, last, mutated, calls, fromEmpty,
                   discarded, restarts, showLogs, stamps, helper,
                   window>>

\* The wall clock is set back (a time correction): Date.now() is not
\* monotonic.
ClockSetBack ==
    /\ now > 0
    /\ now' \in 0..(now - 1)
    /\ UNCHANGED <<logs, cookie, issued, last, mutated, calls, fromEmpty,
                   discarded, restarts, showLogs, stamps, helper,
                   window>>

Next ==
    \/ \E p \in Payloads, random \in 0..RandMax : Direct(p, random)
    \/ ClearLogs
    \/ GetLogs
    \/ \E f \in Filters : GetFilteredLogs(f)
    \/ Restart
    \/ Tick
    \/ ClockSetBack

Spec == Init /\ [][Next]_vars

----------------------------------------------------------------------------
(* A session that logs through the helpers *)

\* A details argument whose keys include every key a helper writes, and
\* one more.
CallerDetails ==
    DetailsObject([endpoint |-> "caller", method |-> "caller",
                   duration |-> "caller", statusCode |-> "caller",
                   action |-> "caller", success |-> "caller",
                   status |-> "caller", operation |-> "caller",
                   timestamp |-> "caller", name |-> "caller",
                   message |-> "caller", stack |-> "caller",
                   error |-> "caller", k |-> "v"])
HelperDetails == {Undefined, CallerDetails}

APIArgs ==
    [endpoint : {"/users"}, method : {"GET"}, duration : {120},
     statusCode : {299, 300, 399, 400}, details : HelperDetails]
AuthArgs ==
    [action : {"login"}, success : BOOLEAN, details : HelperDetails]
NetworkArgs ==
    [status : {"online", "offline", "reconnecting", "connected"},
     details : HelperDetails]
DatabaseArgs ==
    [operation : {"put"}, success : BOOLEAN, duration : {7},
     details : HelperDetails]
ErrorArgs ==
    [message : {"a"},
     error : {ErrorObject("TypeError", "boom", "at f"),
              OtherValue("boom"), OtherValue("undefined")},
     details : HelperDetails]
MessageArgs == [message : {"a"}, details : HelperDetails]

\* The helpers: each makes one addLog call (a is the helper's own argument
\* list).
LogSystem(a, random) ==
    /\ calls < MaxHelperCalls
    /\ AddLog(Payload(a.message, "info", "system", a.details), random)
    /\ helper' = HelperCall("logSystem", a)

LogProvider(a, random) ==
    /\ calls < MaxHelperCalls
    /\ AddLog(Payload(a.message, "info", "provider", a.details), random)
    /\ helper' = HelperCall("logProvider", a)

LogUserAction(a, random) ==
    /\ calls < MaxHelperCalls
    /\ AddLog(Payload(a.message, "info", "user", a.details), random)
    /\ helper' = HelperCall("logUserAction", a)

LogAPIRequest(a, random) ==
    /\ calls < MaxHelperCalls
    /\ AddLog(APIRequestPayload(a, now), random)
    /\ helper' = HelperCall("logAPIRequest", a)

LogAuth(a, random) ==
    /\ calls < MaxHelperCalls
    /\ AddLog(AuthPayload(a, now), random)
    /\ helper' = HelperCall("logAuth", a)

LogNetworkStatus(a, random) ==
    /\ calls < MaxHelperCalls
    /\ AddLog(NetworkPayload(a, now), random)
    /\ helper' = HelperCall("logNetworkStatus", a)

LogDatabase(a, random) ==
    /\ calls < MaxHelperCalls
    /\ AddLog(DatabasePayload(a, now), random)
    /\ helper' = HelperCall("logDatabase", a)

LogError(a, random) ==
    /\ calls < MaxHelperCalls
    /\ AddLog(ErrorPayload(a), random)
    /\ helper' = HelperCall("logError", a)

LogWarning(a, random) ==
    /\ calls < MaxHelperCalls
    /\ AddLog(Payload(a.message, "warning", "system", a.details), random)
    /\ helper' = HelperCall("logWarning", a)

LogDebug(a, random) ==
    /\ calls < MaxHelperCalls
    /\ AddLog(Payload(a.message, "debug", "system", a.details), random)
    /\ helper' = HelperCall("logDebug", a)

\* The page is loaded without a cookie.
InitHelpers == Init /\ cookie = AbsentBlob

NextHelpers ==
    \/ \E a \in MessageArgs, random \in 0..RandMax : LogSystem(a, random)
    \/ \E a \in MessageArgs, random \in 0..RandMax : LogProvider(a, random)
    \/ \E a \in MessageArgs, random \in 0..RandMax : LogUserAction(a, random)
    \/ \E a \in APIArgs, random \in 0..RandMax : LogAPIRequest(a, random)
    \/ \E a \in AuthArgs, random \in 0..RandMax : LogAuth(a, random)
    \/ \E a \in NetworkArgs, random \in 0..RandMax :
          LogNetworkStatus(a, random)
    \/ \E a \in DatabaseArgs, random \in 0..RandMax : LogDatabase(a, random)
    \/ \E a \in ErrorArgs, random \in 0..RandMax : LogError(a, random)
    \/ \E a \in MessageArgs, random \in 0..RandMax : LogWarning(a, random)
    \/ \E a \in MessageArgs, random \in 0..RandMax : LogDebug(a, random)
    \/ Tick

SpecHelpers == InitHelpers /\ [][NextHelpers]_vars

----------------------------------------------------------------------------
(* The settings window: clicks, acknowledgements and timers *)

\* A tile is clicked (the tiles are rendered while activeTab is null):
\* handleTabClick up to its first await.
HandleTabClick(tab) ==
    /\ activeTab = Null
    /\ Count(pending, Handlers) < MaxPending
    /\ loadingTab' = tab
    /\ activeTab' = tab
    /\ pending' = [pending EXCEPT
                      ![Handler(tab, IF tab \in Awaited THEN "ack"
                                     ELSE "timer")] = @ + 1]
    /\ UNCHANGED <<store, tiles>>

\* The awaited acknowledgement of a handler settles: the handler goes on to
\* await the one-second timer.
Acknowledged(tab) ==
    /\ pending[Handler(tab, "ack")] > 0
    /\ pending' = [pending EXCEPT ![Handler(tab, "ack")] = @ - 1,
                                  ![Handler(tab, "timer")] = @ + 1]
    /\ UNCHANGED <<store, activeTab, loadingTab, tiles>>

\* The timer of a handler fires: setLoadingTab(null), and the handler has
\* finished.
TimerFired(tab) ==
    /\ pending[Handler(tab, "timer")] > 0
    /\ pending' = [pending EXCEPT ![Handler(tab, "timer")] = @ - 1]
    /\ loadingTab' = Null
    /\ UNCHANGED <<store, activeTab, tiles>>

\* handleBack (the button is rendered while activeTab is set).
HandleBack ==
    /\ activeTab # Null
    /\ activeTab' = Null
    /\ UNCHANGED <<store, loadingTab, pending, tiles>>

\* The indices a tile can have, and the indices of the tiles on screen.
Indices == 0..(Len(StoredUserTabs) - 1)
TileIndices == 0..(Len(VisibleUserTabs(userTabs)) - 1)

\* A tile is picked up (the tiles are rendered while activeTab is null):
\* useDrag's item is { index } of that tile.
BeginDrag(index) ==
    /\ activeTab = Null
    /\ ~item.dragging
    /\ index \in TileIndices
    /\ item' = Item(index)
    /\ UNCHANGED <<store, activeTab, loadingTab, pending, userTabs,
                   lastMove>>

\* useDrop's hover of the tile at index while a tile is dragged over it:
\* nothing when the item is already at index, else moveTab and the item
\* takes the index.
Hover(index) ==
    /\ activeTab = Null
    /\ item.dragging
    /\ index \in TileIndices
    /\ item.index # index
    /\ userTabs' = MoveTab(userTabs, item.index, index)
    /\ item' = Item(index)
    /\ lastMove' = Move(item.index, index, userTabs)
    /\ UNCHANGED <<store, activeTab, loadingTab, pending>>

\* The dragged tile is released.
EndDrag ==
    /\ item.dragging
    /\ item' = NoItem
    /\ UNCHANGED <<store, activeTab, loadingTab, pending, userTabs,
                   lastMove>>

InitWindow == Init /\ cookie = AbsentBlob

NextWindow ==
    \/ \E tab \in Tabs : HandleTabClick(tab)
    \/ \E tab \in Tabs : Acknowledged(tab)
    \/ \E tab \in Tabs : TimerFired(tab)
    \/ HandleBack
    \/ \E index \in Indices : BeginDrag(index)
    \/ \E index \in Indices : Hover(index)
    \/ EndDrag

SpecWindow == InitWindow /\ [][NextWindow]_vars

----------------------------------------------------------------------------
(* Properties *)

\* The call just made was an addLog that returned (its id is last.id).
AddLogReturned == last.op = "addLog" /\ ~last.threw

\* C1: starting from an empty store, after N > MAX_LOGS addLog calls the map
\* holds exactly MAX_LOGS entries, and no discarded entry has a timestamp
\* strictly later than a resident entry's.
CapacityKeepsMostRecent ==
    (fromEmpty /\ calls > MAX_LOGS) =>
        /\ Size(logs) = MAX_LOGS
        /\ \A i \in 1..Len(logs.ents) : \A d \in discarded :
              d <= GetTime(logs.ents[i].timestamp)

\* C2: in every state between operations, the state right after
\* construction included, the map holds at most MAX_LOGS entries.
AtMostMaxLogs == Size(logs) <= MAX_LOGS

\* C3: when addLog returns id, the map holds under id an entry with that id
\* and the message, level, category and details of the call (a parameter
\* left out taking its default).
AddLogEntryResident ==
    AddLogReturned =>
        \E i \in 1..Len(logs.ents) :
            /\ logs.ents[i].id = last.id
            /\ logs.ents[i].message = last.args.message
            /\ logs.ents[i].level = Default(last.args.level, "info")
            /\ logs.ents[i].category = Default(last.args.category, "system")
            /\ logs.ents[i].details = last.args.details

\* C4: every addLog call generates an id that no earlier addLog call of the
\* process generated and that is not resident when the call starts.
GeneratedIdIsFresh == last.op = "addLog" => ~last.dup

\* C5: in every state that follows a call of addLog or clearLogs, the cookie
\* is the serialization of exactly the resident map.
CookieAgreesWithMap ==
    mutated => (CanStringify(logs) /\ cookie = Stringify(logs))

\* C6: addLog called on a store that holds a mapping does not throw,
\* whatever the payload: the call returns its id.
AddLogNeverThrows ==
    (last.op = "addLog" /\ logs.kind = "object") => ~last.threw

\* C7: a store built from an absent cookie, from text that is not JSON or
\* from JSON that is not a mapping starts empty: until the first mutation
\* no call throws and getLogs() returns the empty sequence.
NotAMapping(blob) == blob.kind # "json" \/ blob.val.kind # "object"

CorruptBlobStartsEmpty ==
    (~mutated /\ NotAMapping(cookie)) =>
        /\ ~last.threw
        /\ ~GetLogsThrows(logs)
        /\ GetLogsValue(logs) = <<>>

\* C8: saving the state and loading the saved blob into a fresh store gives
\* the same map: the same ids and, for every id, the same field values.
RoundTrip ==
    logs.kind = "object" =>
        CanStringify(logs) /\ LoadLogs(Stringify(logs)) = logs

\* C9: clearLogs(), whatever the state it is called in, leaves the map empty
\* and the cookie equal to the serialization of the empty mapping; so the
\* state after a second clearLogs() in a row is the state after the first.
ClearLogsEmptiesAndSaves ==
    last.op = "clearLogs" =>
        /\ ~last.threw
        /\ logs = EmptyMap
        /\ cookie = Stringify(EmptyMap)
        /\ LoadLogs(cookie) = EmptyMap

\* C9 witness: clearLogs() has just been called twice in a row.
ClearedTwice == last.op = "clearLogs" /\ last.again /\ Size(logs) = 0

\* C10: getLogs() returns each resident entry exactly once and nothing
\* else, timestamps non-increasing from first to last.
IsPermutation(s, t) ==
    /\ Len(s) = Len(t)
    /\ \E f \in [1..Len(s) -> 1..Len(t)] :
          /\ \A i, j \in 1..Len(s) : i # j => f[i] # f[j]
          /\ \A i \in 1..Len(s) : s[i] = t[f[i]]

NonIncreasing(s) ==
    \A i \in 1..(Len(s) - 1) :
        GetTime(s[i].timestamp) >= GetTime(s[i + 1].timestamp)

GetLogsSortedResidents ==
    last.op = "getLogs" =>
        /\ ~last.threw
        /\ IsPermutation(last.result, logs.ents)
        /\ NonIncreasing(last.result)

\* The call just made was a getFilteredLogs (its arguments are last.args).
Filtered == last.op = "getFilteredLogs"

\* C11: getFilteredLogs returns the entries of getLogs(), in their order,
\* that satisfy the three predicates; an entry without details matches a
\* present searchQuery through its message only and is otherwise left out.
\* (Stated for a store that holds a mapping whose details all serialize.)
SatisfiesPredicates(log, f) ==
    /\ (f.level = "undefined" \/ f.level = "debug" \/ log.level = f.level)
    /\ (f.category = "undefined" \/ log.category = f.category)
    /\ \/ f.searchQuery = "undefined"
       \/ MessageIncludes(log, f.searchQuery)
       \/ /\ log.details # Undefined
          /\ Includes(ToLowerCase(StringifyDetailsText(log.details)),
                      ToLowerCase(f.searchQuery))

FilteredLogsAsSpecified ==
    (Filtered /\ logs.kind = "object" /\ CanStringify(logs)) =>
        /\ ~last.threw
        /\ last.result =
              SelectSeq(GetLogsValue(logs),
                        LAMBDA log : SatisfiesPredicates(log, last.args))

\* C12: for every category and searchQuery, getFilteredLogs('debug', ...)
\* has the outcome of getFilteredLogs(undefined, ...): the same sequence,
\* entries of every level included.
FilterOutcome(m, f) ==
    IF GetFilteredLogsThrows(m, f) THEN [threw |-> TRUE, result |-> <<>>]
    ELSE [threw |-> FALSE, result |-> GetFilteredLogsValue(m, f)]

DebugMatchesAll ==
    /\ \A category \in {"undefined", "api"} :
       \A searchQuery \in {"undefined", "V"} :
          FilterOutcome(logs, Filter("debug", category, searchQuery))
             = FilterOutcome(logs, Filter("undefined", category, searchQuery))
    /\ (Filtered /\ last.args.level = "debug") =>
          [threw |-> last.threw, result |-> last.result]
             = FilterOutcome(logs, Filter("undefined", last.args.category,
                                          last.args.searchQuery))

\* C12 witness: a getFilteredLogs('debug', ...) returned an entry whose
\* level is not debug.
DebugFilterReturnedOtherLevel ==
    /\ Filtered /\ last.args.level = "debug" /\ ~last.threw
    /\ \E i \in 1..Len(last.result) : last.result[i].level # "debug"

\* C16: of any two addLog calls of a process, the later assigned a
\* timestamp greater than or equal to the one the earlier assigned.
TimestampsNonDecreasing ==
    \A earlier \in stamps.earlier : earlier <= stamps.latest

\* C17: an operation leaves every entry that is resident before and after
\* it as it was, and an entry resident before it is gone after it only if
\* it is clearLogs, or an addLog that started with the store at capacity.
\* (A page load is no operation of the store.)
ResidentsKept ==
    restarts' = restarts =>
        /\ \A i \in 1..Len(logs.ents) : \A j \in 1..Len(logs'.ents) :
              logs'.ents[j].id = logs.ents[i].id
                 => logs'.ents[j] = logs.ents[i]
        /\ (\E i \in 1..Len(logs.ents) : logs.ents[i].id \notin Ids(logs'))
              => \/ last'.op = "clearLogs"
                 \/ last'.op = "addLog" /\ Size(logs) >= MAX_LOGS

OnlyClearAndCapacityRemove == [][ResidentsKept]_vars

\* C19: getLogs() and getFilteredLogs(...) leave the map, the cookie and
\* showLogs as they were, and a query that follows the same query with no
\* other call in between has the same outcome.
Queries == {"getLogs", "getFilteredLogs"}

QueryLeavesStore ==
    (last' # last /\ last'.op \in Queries) =>
        /\ logs' = logs
        /\ cookie' = cookie
        /\ showLogs' = showLogs
        /\ (last.op = last'.op /\ last.args = last'.args) =>
              (last'.threw = last.threw /\ last'.result = last.result)

QueriesAreReadOnly == [][QueryLeavesStore]_vars

\* C19 witness: a query has returned the entries of a full store in an
\* order that is not the order the map holds them in.
QueryReturnedReordered ==
    /\ last.op \in Queries /\ ~last.threw
    /\ Len(last.result) = MAX_LOGS
    /\ last.result # logs.ents

----------------------------------------------------------------------------
(* Properties of the helpers *)

\* The call just made was a helper's (helper.name, helper.args).
Helped == last.op = "addLog" /\ helper # NoHelper

\* The entries resident under the id the call returned.
Stored == {i \in 1..Len(logs.ents) : logs.ents[i].id = last.id}

\* C13: each helper stores an entry whose category and level follow the
\* derivation table.
TableCategory(h) ==
    CASE h.name = "logAPIRequest" -> "api"
      [] h.name = "logAuth" -> "auth"
      [] h.name = "logDatabase" -> "database"
      [] h.name = "logNetworkStatus" -> "network"
      [] h.name = "logError" -> "error"
      [] h.name \in {"logWarning", "logDebug", "logSystem"} -> "system"
      [] h.name = "logProvider" -> "provider"
      [] h.name = "logUserAction" -> "user"

TableLevel(h) ==
    CASE h.name = "logAPIRequest" ->
            IF h.args.statusCode >= 400 THEN "error"
            ELSE IF 300 <= h.args.statusCode /\ h.args.statusCode < 400
                 THEN "warning" ELSE "info"
      [] h.name \in {"logAuth", "logDatabase"} ->
            IF h.args.success THEN "info" ELSE "error"
      [] h.name = "logNetworkStatus" ->
            IF h.args.status = "offline" THEN "error"
            ELSE IF h.args.status = "reconnecting" THEN "warning"
                 ELSE "info"
      [] h.name = "logError" -> "error"
      [] h.name = "logWarning" -> "warning"
      [] h.name = "logDebug" -> "debug"
      [] h.name \in {"logSystem", "logProvider", "logUserAction"} -> "info"

HelperDerivation ==
    Helped =>
        /\ ~last.threw
        /\ Stored # {}
        /\ \A i \in Stored :
              /\ logs.ents[i].category = TableCategory(helper)
              /\ logs.ents[i].level = TableLevel(helper)

\* C13 witness: logAPIRequest with statusCode 400 has stored an entry of
\* level error.
APIRequest400Stored ==
    /\ Helped /\ helper.name = "logAPIRequest"
    /\ helper.args.statusCode = 400
    /\ \E i \in Stored : logs.ents[i].level = "error"

\* The domain fields of the four helpers that write some, and the value of
\* the call's own argument for each.
WritesFields == {"logAPIRequest", "logAuth", "logNetworkStatus", "logDatabase"}

DomainFields(h) ==
    CASE h.name = "logAPIRequest" ->
            {"endpoint", "method", "duration", "statusCode"}
      [] h.name = "logAuth" -> {"action", "success"}
      [] h.name = "logNetworkStatus" -> {"status"}
      [] h.name = "logDatabase" -> {"operation", "success", "duration"}

ArgumentValue(h, k) ==
    CASE k \in {"duration", "statusCode"} -> NumberValue(h.args[k])
      [] k = "success" -> BooleanValue(h.args[k])
      [] OTHER -> h.args[k]

CarriesDomainFields(d, h) ==
    \A k \in DomainFields(h) :
        k \in DOMAIN d.props /\ d.props[k] = ArgumentValue(h, k)

\* C14 as stated: the stored details carry the domain fields with the
\* argument values, and every other caller-supplied key with the caller's
\* value.
DetailsKeepEveryOtherKey ==
    (Helped /\ helper.name \in WritesFields) =>
        \A i \in Stored :
            /\ CarriesDomainFields(logs.ents[i].details, helper)
            /\ \A k \in DOMAIN Spread(helper.args.details) \ DomainFields(helper) :
                  logs.ents[i].details.props[k] = helper.args.details.props[k]

\* C14 amended: the stored details carry the domain fields with the
\* argument values and the key timestamp with the ISO time of the call;
\* every caller-supplied key other than these is kept with the caller's
\* value.
DetailsKeepOtherKeysButTimestamp ==
    (Helped /\ helper.name \in WritesFields) =>
        /\ Stored # {}
        /\ \A i \in Stored :
              /\ CarriesDomainFields(logs.ents[i].details, helper)
              /\ logs.ents[i].details.props["timestamp"]
                    = ISOText(GetTime(logs.ents[i].timestamp))
              /\ \A k \in DOMAIN Spread(helper.args.details)
                           \ (DomainFields(helper) \cup {"timestamp"}) :
                    logs.ents[i].details.props[k]
                       = helper.args.details.props[k]

\* C14 witness: logAPIRequest was called with a details argument that has
\* the keys endpoint, method, duration, statusCode, timestamp and k.
APIRequestWithCallerKeysStored ==
    /\ Helped /\ helper.name = "logAPIRequest"
    /\ helper.args.details = CallerDetails
    /\ \E i \in Stored : logs.ents[i].details.props["k"] = "v"

\* Reading a field of an entry: undefined when the entry has no such key.
Field(e, k) == IF k \in DOMAIN e THEN e[k] ELSE "undefined"

\* C15: an entry created by logAPIRequest or logDatabase has its duration
\* field set to the duration passed, one created by logAPIRequest has its
\* statusCode field set to the status code passed, and the entries of the
\* other helpers have neither field.
DurationAndStatusCodeFields ==
    Helped =>
        \A i \in Stored :
            /\ Field(logs.ents[i], "duration") =
                  IF helper.name \in {"logAPIRequest", "logDatabase"}
                  THEN NumberValue(helper.args.duration) ELSE "undefined"
            /\ Field(logs.ents[i], "statusCode") =
                  IF helper.name = "logAPIRequest"
                  THEN NumberValue(helper.args.statusCode) ELSE "undefined"

\* C18: logError stores every caller-supplied details key with the
\* caller's value; name, message and stack of an Error, or the key error
\* with the value passed, are stored where the caller's details have no key
\* of that name.
LogErrorDetails ==
    (Helped /\ helper.name = "logError") =>
        /\ Stored # {}
        /\ \A i \in Stored :
              LET d == logs.ents[i].details.props
                  caller == Spread(helper.args.details)
                  error == helper.args.error
                  own == IF error.kind = "Error"
                         THEN {"name", "message", "stack"} ELSE {"error"}
              IN /\ DOMAIN d = own \cup DOMAIN caller
                 /\ \A k \in DOMAIN caller : d[k] = caller[k]
                 /\ \A k \in own \ DOMAIN caller :
                       d[k] = IF error.kind = "Error" THEN error[k]
                              ELSE error.value

\* C18 witness: logError was called with an Error and a details argument
\* that has the key name, and the stored name is the caller's.
LogErrorCallerNameStored ==
    /\ Helped /\ helper.name = "logError"
    /\ helper.args.error.kind = "Error"
    /\ helper.args.details = CallerDetails
    /\ \E i \in Stored :
          /\ logs.ents[i].details.props["name"] = "caller"
          /\ logs.ents[i].details.props["k"] = "v"

----------------------------------------------------------------------------
(* Properties of the settings window *)

\* C20: the handler of a tab that finishes does not clear loadingTab while
\* it marks another tab whose handler is still pending; and once no handler
\* is pending, loadingTab is null.
MarkerOutlivesOtherHandlers ==
    /\ \A tab \in Tabs :
          (/\ TimerFired(tab)
           /\ loadingTab \notin {Null, tab}
           /\ \E h \in Running(pending') : h.tab = loadingTab)
             => loadingTab' = loadingTab
    /\ Running(pending') = {} => loadingTab' = Null

LoadingMarkerIsOwn == [][MarkerOutlivesOtherHandlers]_vars

----------------------------------------------------------------------------
(* Properties of the tab configuration *)

\* The two tabs the most recent moveTab call was about: the visible user
\* tabs at dragIndex and hoverIndex in the configuration the call found.
DraggedTab == VisibleUserTabs(lastMove.before)[lastMove.dragIndex + 1]
TargetTab == VisibleUserTabs(lastMove.before)[lastMove.hoverIndex + 1]

\* The configuration of the tab with an id, and the place of that tab in
\* the visible list.
ConfigOf(tabs, id) == tabs[CHOOSE i \in DOMAIN tabs : tabs[i].id = id]
Position(tabs, id) ==
    CHOOSE i \in 1..Len(VisibleUserTabs(tabs)) :
        VisibleUserTabs(tabs)[i].id = id

\* The order values of a configuration, and how often one occurs.
Orders(tabs) == {tabs[i].order : i \in DOMAIN tabs}
Occurrences(tabs, order) ==
    Cardinality({i \in DOMAIN tabs : tabs[i].order = order})

====
